---- MODULE Spec2Model ----
(***************************************************************************)
(* MindTheQApp: the quantum-model training engine (app/utils/instructor.py *)
(* : Model, Instructor) and the dashboard callbacks that drive it          *)
(* (app/pages/2-noise-training.py).                                        *)
(*                                                                         *)
(* Numbers that only the numerics library can compute (rotation angles,    *)
(* expectation values, gradients) are kept symbolic:                       *)
(*   - a weight array is its representation (nested list or numeric        *)
(*     array), its shape and its content, the content being its origin     *)
(*     and the optimizer updates applied since;                            *)
(*   - a cost is the content it was evaluated at and the noise setting;    *)
(*   - a circuit is the sequence of operations it queues, each argument a  *)
(*     symbol: the input x, a weight w[l][i] or a noise probability.       *)
(***************************************************************************)
EXTENDS Integers, Sequences, FiniteSets, TLC

\* ------------------------------------------------------------------ bounds
MaxQubits == 2
MaxLayers == 2
MaxCalls == 2
MaxClicks == 2

\* ------------------------------------------------------- program constants
Circ19 == 19
LogCap == 30

\* ----------------------------------------------------------- Python values
None == [kind |-> "None"]

Raise(exc) == [kind |-> "raise", exc |-> exc]

Weights(rep, shape, base, upd) ==
    [kind |-> "weights", rep |-> rep, shape |-> shape, base |-> base, upd |-> upd]

\* the literal [] the training log starts from
EmptyList == Weights("list", <<0>>, "empty", <<>>)

\* len(w): the size of the first axis
PyLen(w) == w.shape[1]

\* np.array(w, requires_grad=True): a numeric array with the same numbers
NpArray(w) == [w EXCEPT !.rep = "array"]

\* what JSON serialisation into a dcc.Store makes of an array: a nested list
ToJson(w) == [w EXCEPT !.rep = "list"]

\* the numbers of a weight array, whatever holds them
Content(w) == [shape |-> w.shape, base |-> w.base, upd |-> w.upd]

\* the five slider values, in tenths
Noise(bf, pf, ad, pd, dp) == [bf |-> bf, pf |-> pf, ad |-> ad, pd |-> pd, dp |-> dp]

NoiseSettings == {Noise(0, 0, 0, 0, 0), Noise(1, 2, 3, 4, 5)}

\* ------------------------------------------------------------------- Model
Arg(v, l, i) == [v |-> v, l |-> l, i |-> i]

Op(name, wires, arg) == [name |-> name, wires |-> wires, arg |-> arg]

NParamsCirc19(n_qubits, n_layers) == <<n_layers, n_qubits * 3 - 1>>

\* qml.device("default.mixed", wires=n_qubits): the library decides what a
\* device without wires is
DeviceOutcomes(n_qubits) == IF n_qubits >= 1 THEN {"ok"} ELSE {"ok", "error"}

ModelInit(n_qubits, n_layers, circuit_type, state_vector, dev) ==
    IF circuit_type # Circ19 THEN Raise("AttributeError")
    ELSE IF dev # "ok" THEN Raise("DeviceError")
    ELSE [kind |-> "Model", n_qubits |-> n_qubits, n_layers |-> n_layers,
          state_vector |-> state_vector, pqc |-> "_pqc19",
          n_params |-> NParamsCirc19(n_qubits, n_layers)]

\* first loop of _pqc19: RX and RZ on every qubit, w_idx advancing by two
RECURSIVE Pqc19Rot(_, _, _, _)
Pqc19Rot(n, l, q, w_idx) ==
    IF q >= n THEN [tape |-> <<>>, w_idx |-> w_idx]
    ELSE LET rest == Pqc19Rot(n, l, q + 1, w_idx + 2)
         IN [tape |-> <<Op("RX", <<q>>, Arg("w", l, w_idx)),
                        Op("RZ", <<q>>, Arg("w", l, w_idx + 1))>> \o rest.tape,
             w_idx |-> rest.w_idx]

\* second loop of _pqc19: CRX from q to (q+1) % n for every q > 0
RECURSIVE Pqc19Ent(_, _, _, _)
Pqc19Ent(n, l, q, w_idx) ==
    IF q >= n THEN [tape |-> <<>>, w_idx |-> w_idx]
    ELSE IF q > 0
         THEN LET rest == Pqc19Ent(n, l, q + 1, w_idx + 1)
              IN [tape |-> <<Op("CRX", <<q, (q + 1) % n>>, Arg("w", l, w_idx))>>
                             \o rest.tape,
                  w_idx |-> rest.w_idx]
         ELSE Pqc19Ent(n, l, q + 1, w_idx)

\* a plausible slip: the ring closed from qubit 0 as well
RECURSIVE Pqc19EntAll(_, _, _, _)
Pqc19EntAll(n, l, q, w_idx) ==
    IF q >= n THEN [tape |-> <<>>, w_idx |-> w_idx]
    ELSE LET rest == Pqc19EntAll(n, l, q + 1, w_idx + 1)
         IN [tape |-> <<Op("CRX", <<q, (q + 1) % n>>, Arg("w", l, w_idx))>>
                        \o rest.tape,
             w_idx |-> rest.w_idx]

Pqc19FullRing(n, l) ==
    LET rot == Pqc19Rot(n, l, 0, 0)
        ent == Pqc19EntAll(n, l, 0, rot.w_idx)
    IN rot.tape \o ent.tape

Pqc19(n, l) ==
    LET rot == Pqc19Rot(n, l, 0, 0)
        ent == Pqc19Ent(n, l, 0, rot.w_idx)
    IN rot.tape \o ent.tape

RECURSIVE IecFrom(_, _)
IecFrom(n, q) ==
    IF q >= n THEN <<>>
    ELSE <<Op("RY", <<q>>, Arg("x", 0, 0))>> \o IecFrom(n, q + 1)

Iec(n) == IecFrom(n, 0)

\* the channel loop of _circuit
RECURSIVE NoiseFrom(_, _)
NoiseFrom(n, q) ==
    IF q >= n THEN <<>>
    ELSE <<Op("BitFlip", <<q>>, Arg("bf", 0, 0)),
           Op("PhaseFlip", <<q>>, Arg("pf", 0, 0)),
           Op("AmplitudeDamping", <<q>>, Arg("ad", 0, 0)),
           Op("PhaseDamping", <<q>>, Arg("pd", 0, 0)),
           Op("DepolarizingChannel", <<q>>, Arg("dp", 0, 0))>> \o NoiseFrom(n, q + 1)

\* the layer loop of _circuit
RECURSIVE LayersFrom(_, _)
LayersFrom(m, l) ==
    IF l >= m.n_layers THEN <<>>
    ELSE Iec(m.n_qubits) \o Pqc19(m.n_qubits, l) \o NoiseFrom(m.n_qubits, 0)
         \o LayersFrom(m, l + 1)

Measurement(m) ==
    IF m.state_vector THEN Op("state", <<>>, Arg("none", 0, 0))
    ELSE Op("expval PauliZ", <<0>>, Arg("none", 0, 0))

\* the assertion that opens _circuit: a list is let through unchecked
ShapeAccepted(m, w) == w.rep = "list" \/ w.shape = m.n_params

\* every w[l][i] the tape reads exists (Python raises IndexError otherwise)
ReadsOk(w, tape) ==
    \A k \in DOMAIN tape :
        tape[k].arg.v = "w" =>
            /\ Len(w.shape) = 2
            /\ tape[k].arg.l < w.shape[1]
            /\ tape[k].arg.i < w.shape[2]

\* Model.__call__ -> the QNode -> _circuit
Circuit(m, w, x, p) ==
    IF ~ShapeAccepted(m, w) THEN Raise("AssertionError")
    ELSE LET tape == LayersFrom(m, 0)
         IN IF ~ReadsOk(w, tape) THEN Raise("IndexError")
            ELSE [kind |-> "ok", tape |-> Append(tape, Measurement(m)),
                  value |-> [at |-> Content(w), x |-> x, noise |-> p]]

\* -------------------------------------------------------------- Instructor
InstructorInit(n_qubits, n_layers, seed, obj, dev) ==
    LET m == ModelInit(n_qubits, n_layers, Circ19, FALSE, dev)
        shape == <<n_layers, n_qubits * 3 - 1>>
    IN IF m.kind = "raise" THEN m
       ELSE IF shape[1] < 0 \/ shape[2] < 0 THEN Raise("ValueError")
       ELSE [kind |-> "Instructor", obj |-> obj, seed |-> seed,
             max_freq |-> n_qubits * n_layers, model |-> m,
             weights |-> Weights("array", shape, "init", <<>>),
             opt |-> [t |-> 0]]

Forward(ins, x_d, weights, p) ==
    LET w == IF weights # None THEN weights ELSE ins.weights
    IN Circuit(ins.model, w, x_d, p)

\* a scalar computed from an array's numbers under noise p: it tells the
\* origin, how many updates the numbers have had, and the noise
Scalar(at, p) == [base |-> at.base, n |-> Len(at.upd), noise |-> p]

Cost(ins, w, y_d, p) ==
    LET y_pred == Forward(ins, "x_d", w, p)
    IN IF y_pred.kind = "raise" THEN y_pred
       ELSE [kind |-> "ok", value |-> Scalar(y_pred.value.at, p)]

\* AdamOptimizer.apply_grad: new numbers from the old ones, the gradient under
\* noise p and the optimizer's moments after t earlier updates
AdamUpdate(w, opt, p) == [w EXCEPT !.upd = Append(@, [t |-> opt.t, noise |-> p])]

\* a slip: the defaults are not substituted for empty weights
StepNoDefault(ins, w, p) ==
    LET c == Cost(ins, NpArray(w), "y_d", p)
    IN IF c.kind = "raise" THEN [out |-> c, ins |-> ins]
       ELSE [out |-> [kind |-> "ok", w |-> AdamUpdate(NpArray(w), ins.opt, p),
                      cost |-> c.value],
             ins |-> [ins EXCEPT !.opt.t = @ + 1]]

\* Instructor.step: returns the outcome and the instance after the call
Step(ins, w, p) ==
    LET w1 == IF PyLen(w) = 0 THEN ins.weights ELSE w
        w2 == NpArray(w1)
        c == Cost(ins, w2, "y_d", p)
    IN IF c.kind = "raise" THEN [out |-> c, ins |-> ins]
       ELSE [out |-> [kind |-> "ok", w |-> AdamUpdate(w2, ins.opt, p),
                      cost |-> c.value],
             ins |-> [ins EXCEPT !.opt.t = @ + 1]]

\* Instructor.calc_hist: 2*max_freq+1 coefficients of forward(., w)
CalcHist(ins, w, p) ==
    LET f == Forward(ins, "x", w, p)
    IN IF f.kind = "raise" THEN f
       ELSE [kind |-> "ok", data_len |-> 2 * ins.max_freq + 1,
             comb |-> Scalar(f.value.at, p)]

\* ------------------------------------------- dashboard: the callbacks' code
EmptyLog == [loss |-> <<>>, weights |-> EmptyList]

EmptyHist == [x |-> <<>>, y |-> <<>>, z |-> <<>>]

\* cost.item(): the Python float of the cost
Item(c) == c

\* the log as the store keeps it: JSON, the weight array a nested list
ToJsonLog(page_log) == [loss |-> page_log.loss, weights |-> ToJson(page_log.weights)]

\* on_preference_changed: the stored data is rebuilt from the slider values
OnPreferenceChangedHandler(bf, pf, ad, pd, dp, data) == Noise(bf, pf, ad, pd, dp)

\* two slips in the test that restarts the log
LogFullAtCap(page_log) == Len(page_log.loss) >= LogCap

LogFullLate(page_log) == Len(page_log.loss) > LogCap + 1

\* training: the test that restarts the log
LogFull(page_log) == Len(page_log.loss) > LogCap

\* a slip: the module-level instance is used instead of a new one
TrainingInstructorShared(main, g) == g

\* training: the Instructor the tick runs on, named instructor like the
\* module-level instance g, which it shadows
TrainingInstructor(main, g) ==
    InstructorInit(main.niq, main.nil, main.seed, "training", "ok")

\* training(n, page_log, page_data, main_data), with the module-level
\* instructor g: the returned log, g after the call, and what the call did
Training(n, page_log, page_data, main, g) ==
    LET log0 == IF page_log = None THEN EmptyLog ELSE page_log
        full == LogFull(log0)
        log1 == IF full THEN EmptyLog ELSE log0
        ins == TrainingInstructor(main, g)
        st == Step(ins, log1.weights, page_data)
    IN [kind |-> st.out.kind,
        page_log |-> IF st.out.kind = "raise" THEN log1
                     ELSE [loss |-> Append(log1.loss, Item(st.out.cost)),
                           weights |-> st.out.w],
        instructor |-> IF ins.obj = g.obj THEN st.ins ELSE g,
        reset |-> full, step_w |-> log1.weights, ins |-> ins]

\* a slip: pong never holds the write-back
PongHoldsNever(data) == FALSE

\* pong: the test that raises PreventUpdate
PongHolds(data) == Len(data.loss) > LogCap

\* pong(_, data)
Pong(ts, data) ==
    IF PongHolds(data) THEN [kind |-> "PreventUpdate"]
    ELSE [kind |-> "ok", data |-> data]

\* np.arange(lo, hi, 1)
Arange(lo, hi) == [i \in 1..(IF hi > lo THEN hi - lo ELSE 0) |-> lo + i - 1]

\* update_hist(n, page_log_training, page_log_hist, page_data, main_data)
UpdateHistHandler(page_log_training, page_log_hist, page_data, main) ==
    LET h0 == IF page_log_hist = None \/ Len(page_log_training.loss) = 0
              THEN EmptyHist ELSE page_log_hist
        ins == InstructorInit(main.niq, main.nil, main.seed, "update_hist", "ok")
        ch == CalcHist(ins, page_log_training.weights, page_data)
    IN IF ch.kind = "raise" THEN ch
       ELSE [kind |-> "ok",
             page_log_hist |->
                 [x |-> Arange(((-ch.data_len) \div 2) + 1, (ch.data_len \div 2) + 1),
                  y |-> [i \in 1..Len(page_log_training.loss) |-> i - 1],
                  z |-> Append(h0.z, ch.comb)]]

\* ------------------------------------------------------------------- state
VARIABLES
    main_data,      \* storage-main: {niq, nil, seed}
    instructor,     \* the module-level Instructor(2, 4)
    viz,            \* storage-noise-training-viz: the noise setting
    proc,           \* storage-noise-training-proc: None or {loss, weights}
    hist,           \* storage-noise-hist-proc: None or {x, y, z}
    trainingReqs,   \* training invocations in flight, in dispatch order
    pongReqs,       \* pong invocations in flight, in dispatch order
    histDue,        \* update_hist is triggered and has not run yet
    clicks,         \* n_clicks of training-button
    tick,           \* the last training invocation that ran
    cfg,            \* engine: the arguments of the last construction
    obj,            \* engine: the Model or Instructor constructed
    ret             \* engine: the last call made on obj

uiVars == <<main_data, instructor, viz, proc, hist, trainingReqs, pongReqs,
            histDue, clicks, tick>>

engVars == <<cfg, obj, ret>>

vars == <<main_data, instructor, viz, proc, hist, trainingReqs, pongReqs,
          histDue, clicks, tick, cfg, obj, ret>>

Init ==
    /\ main_data = [niq |-> 2, nil |-> 4, seed |-> 100]
    /\ instructor = InstructorInit(2, 4, 100, "module", "ok")
    /\ viz = OnPreferenceChangedHandler(0, 0, 0, 0, 0, None)
    /\ proc = None
    /\ hist = None
    /\ trainingReqs = <<>>
    /\ pongReqs = <<>>
    /\ histDue = FALSE
    /\ clicks = 0
    /\ tick = None
    /\ cfg = None
    /\ obj = None
    /\ ret = None


\* ------------------------------------------------ dashboard: the dispatcher
(* The browser side of the callbacks' declarations.  A callback is          *)
(* dispatched when one of its Inputs changes: by the user, or by the        *)
(* output of another callback; its Inputs and States are read then, and     *)
(* its outputs are applied when the response arrives.  A callback's own     *)
(* output does not dispatch it again.  A store changes its                  *)
(* modified_timestamp when the data written differs from the data held.     *)
(* When a callback is dispatched while an earlier invocation of it is in    *)
(* flight, the newer one supersedes it: the handler of the earlier          *)
(* invocation still runs on the server, and its response is dropped.        *)
(* With view set, update_hist is dispatched with the other callbacks of     *)
(* the timestamp and runs to completion before the next response is         *)
(* handled; without it the figures are left out (they write no store that   *)
(* training or pong reads).                                                 *)
RemoveAt(s, i) == [k \in 1..(Len(s) - 1) |-> IF k < i THEN s[k] ELSE s[k + 1]]

MarkStale(reqs) == [k \in DOMAIN reqs |-> [reqs[k] EXCEPT !.live = FALSE]]

Dispatch(reqs, r) == Append(MarkStale(reqs), r)

TrainingReq(by, n, page_log, page_data) ==
    [by |-> by, n |-> n, page_log |-> page_log, page_data |-> page_data, live |-> TRUE]

PongReq(data) == [data |-> data, live |-> TRUE]

Idle == trainingReqs = <<>> /\ pongReqs = <<>> /\ ~histDue

\* a click on "Start Training": Input("training-button", "n_clicks")
Click ==
    /\ clicks < MaxClicks
    /\ clicks' = clicks + 1
    /\ trainingReqs' = Dispatch(trainingReqs,
                             TrainingReq("click", clicks + 1, proc, viz))
    /\ UNCHANGED <<main_data, instructor, viz, proc, hist, pongReqs, histDue, tick>>
    /\ UNCHANGED engVars

\* the same click, made only while nothing is in flight
ClickIdle == Idle /\ Click

\* a slider is moved (before training starts)
OnPreferenceChanged ==
    /\ clicks = 0
    /\ \E p \in NoiseSettings :
           /\ p # viz
           /\ viz' = OnPreferenceChangedHandler(p.bf, p.pf, p.ad, p.pd, p.dp, viz)
    /\ UNCHANGED <<main_data, instructor, proc, hist, trainingReqs, pongReqs,
                   histDue, clicks, tick>>
    /\ UNCHANGED engVars

\* the response of training invocation i arrives
TrainingReturn(i, view) ==
    /\ i \in DOMAIN trainingReqs
    /\ ~histDue
    /\ \E res \in {Training(trainingReqs[i].n, trainingReqs[i].page_log,
                              trainingReqs[i].page_data, main_data, instructor)} :
         LET r == trainingReqs[i]
             new == ToJsonLog(res.page_log)
             applied == r.live /\ res.kind = "ok"
             changed == applied /\ new # proc
         IN /\ instructor' = res.instructor
            /\ tick' = [by |-> r.by, page_log |-> r.page_log, reset |-> res.reset,
                        step_w |-> res.step_w, opt |-> res.ins.opt,
                        obj |-> res.ins.obj, out |-> res.page_log, applied |-> applied]
            /\ proc' = IF applied THEN new ELSE proc
            /\ histDue' = (view /\ changed)
            /\ trainingReqs' = RemoveAt(trainingReqs, i)
            /\ pongReqs' = IF changed THEN Dispatch(pongReqs, PongReq(new))
                            ELSE pongReqs
    /\ UNCHANGED <<main_data, viz, hist, clicks>>
    /\ UNCHANGED engVars

\* the response of pong invocation j arrives
PongReturn(j, view) ==
    /\ j \in DOMAIN pongReqs
    /\ ~histDue
    /\ LET r == pongReqs[j]
           res == Pong(0, r.data)
           applied == r.live /\ res.kind = "ok"
           changed == applied /\ res.data # proc
           rest == RemoveAt(pongReqs, j)
       IN /\ proc' = IF applied THEN res.data ELSE proc
          /\ histDue' = (view /\ changed)
          /\ pongReqs' = IF changed THEN Dispatch(rest, PongReq(res.data)) ELSE rest
          /\ trainingReqs' =
                 IF applied
                 THEN Dispatch(trainingReqs, TrainingReq("store", clicks, res.data, viz))
                 ELSE trainingReqs
    /\ UNCHANGED <<main_data, instructor, viz, hist, clicks, tick>>
    /\ UNCHANGED engVars

\* update_hist runs on the stores as they are
UpdateHist ==
    /\ histDue
    /\ LET res == UpdateHistHandler(proc, hist, viz, main_data)
       IN hist' = IF res.kind = "ok" THEN res.page_log_hist ELSE hist
    /\ histDue' = FALSE
    /\ UNCHANGED <<main_data, instructor, viz, proc, trainingReqs, pongReqs,
                   clicks, tick>>
    /\ UNCHANGED engVars

\* the dashboard used one tick at a time: the button is clicked only while
\* nothing is in flight
Next ==
    \/ ClickIdle
    \/ OnPreferenceChanged
    \/ \E i \in DOMAIN trainingReqs : TrainingReturn(i, TRUE)
    \/ \E j \in DOMAIN pongReqs : PongReturn(j, TRUE)
    \/ UpdateHist

Spec == Init /\ [][Next]_vars

\* the training loop under every interleaving of clicks and responses
RaceNext ==
    \/ Click
    \/ OnPreferenceChanged
    \/ \E i \in DOMAIN trainingReqs : TrainingReturn(i, FALSE)
    \/ \E j \in DOMAIN pongReqs : PongReturn(j, FALSE)

RaceSpec == Init /\ [][RaceNext]_vars

\* some training response can arrive: the handler answers every request
TrainingReturnEnabled == trainingReqs # <<>> /\ ~histDue

\* the server answers every request: weak fairness of the two kinds of
\* response, the one of training written out with its enabling condition
FairRaceSpec ==
    /\ RaceSpec
    /\ WF_vars(\E j \in DOMAIN pongReqs : PongReturn(j, FALSE))
    /\ (<>[]TrainingReturnEnabled
          => []<><<\E i \in DOMAIN trainingReqs : TrainingReturn(i, FALSE)>>_vars)

\* ------------------------------------------------- the engine, called directly
\* One object is constructed, a Model or an Instructor, and then called.
QubitInputs == -1..MaxQubits

LayerInputs == -1..MaxLayers

CircuitTypes == {Circ19 - 1, Circ19, Circ19 + 1}

XInputs == {"x0", "x1"}

\* shapes around the one model m wants: itself, and one row or one column
\* more or fewer
ShapeInputs(m) ==
    {sh \in {m.n_params,
             <<m.n_params[1] + 1, m.n_params[2]>>, <<m.n_params[1] - 1, m.n_params[2]>>,
             <<m.n_params[1], m.n_params[2] + 1>>, <<m.n_params[1], m.n_params[2] - 1>>} :
        sh[1] >= 1 /\ sh[2] >= 1}

\* weight arrays a caller may pass: the empty list, and lists and arrays of
\* right and wrong shapes
WeightInputs(m) ==
    {EmptyList} \cup
    {Weights(rep, sh, "user", <<>>) : rep \in {"list", "array"}, sh \in ShapeInputs(m)}

\* the weights a step has returned, as returned or back from JSON
Returned == IF ret # None /\ ret.op = "step" /\ ret.out.kind = "ok"
            THEN {ret.out.w, ToJson(ret.out.w)} ELSE {}

Call(op, m, w, x, p, out, pre) ==
    [op |-> op, m |-> m, w |-> w, x |-> x, p |-> p, out |-> out, pre |-> pre]

\* Instructor(n_qubits, n_layers)
NewInstructor ==
    /\ cfg = None
    /\ \E n_qubits \in QubitInputs, n_layers \in LayerInputs :
         \E dev \in DeviceOutcomes(n_qubits) :
           /\ cfg' = [cls |-> "Instructor", n_qubits |-> n_qubits, n_layers |-> n_layers,
                      circuit_type |-> Circ19, state_vector |-> FALSE]
           /\ obj' = InstructorInit(n_qubits, n_layers, 100, "caller", dev)
    /\ ret' = None
    /\ UNCHANGED uiVars

\* Model(n_qubits, n_layers, circuit_type, state_vector)
NewModel ==
    /\ cfg = None
    /\ \E n_qubits \in QubitInputs, n_layers \in LayerInputs,
          circuit_type \in CircuitTypes, state_vector \in BOOLEAN :
         \E dev \in DeviceOutcomes(n_qubits) :
           /\ cfg' = [cls |-> "Model", n_qubits |-> n_qubits, n_layers |-> n_layers,
                      circuit_type |-> circuit_type, state_vector |-> state_vector]
           /\ obj' = ModelInit(n_qubits, n_layers, circuit_type, state_vector, dev)
    /\ ret' = None
    /\ UNCHANGED uiVars

\* model(w, x, bf=..., ...)
CallModel ==
    /\ obj.kind = "Model"
    /\ \E w \in WeightInputs(obj), x \in XInputs, p \in NoiseSettings :
           ret' = Call("model", obj, w, x, p, Circuit(obj, w, x, p), obj)
    /\ UNCHANGED <<cfg, obj>>
    /\ UNCHANGED uiVars

\* instructor.forward(x, weights=w, ...)
CallForward ==
    /\ obj.kind = "Instructor"
    /\ \E w \in WeightInputs(obj.model) \cup Returned \cup {None}, x \in XInputs, p \in NoiseSettings :
           ret' = Call("forward", obj.model, w, x, p, Forward(obj, x, w, p), obj)
    /\ UNCHANGED <<cfg, obj>>
    /\ UNCHANGED uiVars

\* instructor.cost(w, instructor.y_d, ...)
CallCost ==
    /\ obj.kind = "Instructor"
    /\ \E w \in WeightInputs(obj.model) \cup Returned, p \in NoiseSettings :
           ret' = Call("cost", obj.model, w, "x_d", p, Cost(obj, w, "y_d", p), obj)
    /\ UNCHANGED <<cfg, obj>>
    /\ UNCHANGED uiVars

\* instructor.step(w, ...)
CallStep ==
    /\ obj.kind = "Instructor"
    /\ obj.opt.t < MaxCalls
    /\ \E w \in WeightInputs(obj.model) \cup Returned, p \in NoiseSettings :
           LET st == Step(obj, w, p)
           IN /\ ret' = Call("step", obj.model, w, "x_d", p, st.out, obj)
              /\ obj' = st.ins
    /\ UNCHANGED cfg
    /\ UNCHANGED uiVars

EngNext ==
    \/ NewInstructor
    \/ NewModel
    \/ CallModel
    \/ CallForward
    \/ CallCost
    \/ CallStep

EngSpec == Init /\ [][EngNext]_vars

\* ------------------------------------------------------------------ claims
\* the log a training invocation received: an empty store reads as an empty log
TickInput == IF tick.page_log = None THEN [loss |-> <<>>, weights |-> EmptyList]
             ELSE tick.page_log

\* C1: a training tick restarts the log exactly when the incoming loss has
\* more than 30 entries: then the step is given empty weights, starts from the
\* seeded ones, and the returned log has one loss entry; with 30 entries or
\* fewer nothing is reset, the step is given the stored weights, and the
\* returned loss is the incoming loss with one entry appended.
C1_ResetIffOver30 ==
    tick # None =>
        IF Len(TickInput.loss) > 30
        THEN /\ tick.reset
             /\ tick.step_w = EmptyList
             /\ Len(tick.out.loss) = 1
             /\ tick.out.weights.base = "init"
             /\ Len(tick.out.weights.upd) = 1
        ELSE /\ ~tick.reset
             /\ tick.step_w = TickInput.weights
             /\ Len(tick.out.loss) = Len(TickInput.loss) + 1
             /\ SubSeq(tick.out.loss, 1, Len(TickInput.loss)) = TickInput.loss

\* a tick has received a log of 31 entries and returned one of 1 entry
C1_Witness ==
    /\ tick # None
    /\ tick.page_log # None
    /\ Len(tick.page_log.loss) = 31
    /\ Len(tick.out.loss) = 1

\* every loss sequence in the session: stored, in flight, returned
AllLogsAtMost(k) ==
    /\ proc # None => Len(proc.loss) <= k
    /\ tick # None => Len(tick.out.loss) <= k
    /\ \A j \in DOMAIN pongReqs : Len(pongReqs[j].data.loss) <= k
    /\ \A i \in DOMAIN trainingReqs :
           trainingReqs[i].page_log # None => Len(trainingReqs[i].page_log.loss) <= k

\* C2 (as claimed): the stored log and the log any tick returns never hold
\* more than 30 loss entries.
C2_LogAtMost30 == AllLogsAtMost(30)

\* C2 (amended): the stored log and the log any tick returns never hold more
\* than 31 loss entries.
C2_LogAtMost31 == AllLogsAtMost(31)

\* the store holds a log of 31 entries
C2_Witness == proc # None /\ Len(proc.loss) = 31

\* C3 (as claimed): on an Instructor of at least one qubit and one layer,
\* forward, cost and step fail for every weight array whose shape differs from
\* (n_layers, n_qubits*3-1), list or array (step's empty weights aside, which
\* stand for the defaults): no circuit is evaluated.
C3_WrongShapeFails ==
    (/\ ret # None
     /\ ret.op \in {"forward", "cost", "step"}
     /\ ret.m.n_qubits >= 1
     /\ ret.m.n_layers >= 1
     /\ ret.w # None
     /\ ~(ret.op = "step" /\ PyLen(ret.w) = 0)
     /\ ret.w.shape # <<ret.m.n_layers, ret.m.n_qubits * 3 - 1>>)
    => ret.out.kind = "raise"

\* C4 (as claimed): no Model and no Instructor is constructed for an ansatz
\* other than 19, or fewer than one qubit, or fewer than one layer.
C4_BadConfigurationFails ==
    (/\ cfg # None
     /\ (cfg.circuit_type # 19 \/ cfg.n_qubits < 1 \/ cfg.n_layers < 1))
    => obj.kind = "raise"

\* C5: the reference circuit, position by position.  A layer of n qubits
\* holds 9n-1 operations: n RY(x); RX(w[2q]) and RZ(w[2q+1]) on q = 0..n-1;
\* CRX(w[2n+q-1]) from q to (q+1) mod n for q = 1..n-1; five channels on each
\* qubit in the order BitFlip, PhaseFlip, AmplitudeDamping, PhaseDamping,
\* DepolarizingChannel.
RefChannels == <<"BitFlip", "PhaseFlip", "AmplitudeDamping", "PhaseDamping",
                 "DepolarizingChannel">>

RefProbs == <<"bf", "pf", "ad", "pd", "dp">>

RefOp(n, l, i) ==
    IF i < n THEN [name |-> "RY", wires |-> <<i>>, arg |-> [v |-> "x", l |-> 0, i |-> 0]]
    ELSE IF i < 3 * n
         THEN [name |-> IF (i - n) % 2 = 0 THEN "RX" ELSE "RZ",
               wires |-> <<(i - n) \div 2>>,
               arg |-> [v |-> "w", l |-> l, i |-> i - n]]
    ELSE IF i < 4 * n - 1
         THEN [name |-> "CRX",
               wires |-> <<i - 3 * n + 1, (i - 3 * n + 2) % n>>,
               arg |-> [v |-> "w", l |-> l, i |-> i - n]]
    ELSE [name |-> RefChannels[((i - (4 * n - 1)) % 5) + 1],
          wires |-> <<(i - (4 * n - 1)) \div 5>>,
          arg |-> [v |-> RefProbs[((i - (4 * n - 1)) % 5) + 1], l |-> 0, i |-> 0]]

RefTape(n, layers, state_vector) ==
    [k \in 1..(layers * (9 * n - 1) + 1) |->
        IF k = layers * (9 * n - 1) + 1
        THEN [name |-> IF state_vector THEN "state" ELSE "expval PauliZ",
              wires |-> IF state_vector THEN <<>> ELSE <<0>>,
              arg |-> [v |-> "none", l |-> 0, i |-> 0]]
        ELSE RefOp(n, (k - 1) \div (9 * n - 1), (k - 1) % (9 * n - 1))]

\* the weight indices a tape reads in layer l, in the order read
WeightReads(tape, l) ==
    LET reads == SelectSeq(tape, LAMBDA o : o.arg.v = "w" /\ o.arg.l = l)
    IN [k \in DOMAIN reads |-> reads[k].arg.i]

\* C5: for n_qubits >= 1 and n_layers >= 1 every circuit evaluation queues
\* exactly the reference sequence, the measurement last; each layer reads the
\* weight indices 0..3n-2 once each in increasing order; and an array of shape
\* (n_layers, 3n-1) is always evaluated (no read falls outside a row).
C5_CircuitSequence ==
    (/\ ret # None
     /\ ret.op \in {"model", "forward"}
     /\ ret.m.n_qubits >= 1
     /\ ret.m.n_layers >= 1)
    => LET w == IF ret.w = None THEN ret.pre.weights ELSE ret.w
       IN /\ w.shape = <<ret.m.n_layers, ret.m.n_qubits * 3 - 1>> => ret.out.kind = "ok"
          /\ ret.out.kind = "ok" =>
               /\ ret.out.tape = RefTape(ret.m.n_qubits, ret.m.n_layers, ret.m.state_vector)
               /\ \A l \in 0..(ret.m.n_layers - 1) :
                      WeightReads(ret.out.tape, l) =
                          [k \in 1..(3 * ret.m.n_qubits - 1) |-> k - 1]

\* a model of two qubits and two layers has been evaluated on an array
C5_Witness ==
    /\ ret # None
    /\ ret.op = "model"
    /\ ret.out.kind = "ok"
    /\ ret.w.rep = "array"
    /\ ret.m.n_qubits = 2
    /\ ret.m.n_layers = 2

\* C6: a step that returns has made exactly one optimizer update, from the
\* instance's seeded weights when given empty weights and from the given ones
\* otherwise; the returned array has shape (n_layers, 3n-1); the returned loss
\* is the cost at the weights the update started from; the instance's own
\* weights are as constructed.  A step given empty weights returns.
C6_StepOneUpdate ==
    (ret # None /\ ret.op = "step") =>
        LET ins == ret.pre
            start == IF ret.w.shape[1] = 0 THEN ins.weights ELSE ret.w
        IN /\ ret.w.shape[1] = 0 => ret.out.kind = "ok"
           /\ ret.out.kind = "ok" =>
                /\ ret.out.w.shape = <<cfg.n_layers, cfg.n_qubits * 3 - 1>>
                /\ ret.out.w.base = start.base
                /\ Len(ret.out.w.upd) = Len(start.upd) + 1
                /\ SubSeq(ret.out.w.upd, 1, Len(start.upd)) = start.upd
                /\ ret.out.w.upd[Len(start.upd) + 1] = [t |-> ins.opt.t, noise |-> ret.p]
                /\ ret.out.cost = [base |-> start.base, n |-> Len(start.upd), noise |-> ret.p]
                /\ obj.opt.t = ins.opt.t + 1
                /\ obj.weights = ins.weights
                /\ obj.weights.base = "init"
                /\ obj.weights.upd = <<>>
                /\ obj.weights.shape = <<cfg.n_layers, cfg.n_qubits * 3 - 1>>

\* the second step on one instance was given empty weights and returned
C6_Witness ==
    /\ ret # None
    /\ ret.op = "step"
    /\ ret.w = EmptyList
    /\ ret.out.kind = "ok"
    /\ ret.pre.opt.t = 1

\* C7 (as claimed): once update_hist has run, z has as many rows as y has
\* step indices, which is the length of the stored loss.
C7_SpectrumRectangular ==
    (hist # None /\ proc # None /\ ~histDue) =>
        /\ Len(hist.z) = Len(hist.y)
        /\ Len(hist.y) = Len(proc.loss)

\* C8 (as claimed): no two training invocations read the same stored log, and
\* the result of every step that ran is applied to the store.
C8_TicksSequential ==
    /\ \A i, j \in DOMAIN trainingReqs :
           i # j => trainingReqs[i].page_log # trainingReqs[j].page_log
    /\ tick # None => tick.applied

\* C9: every tick's step runs on the Instructor constructed in that
\* invocation, its optimizer in the initial state at the step's entry; so every
\* update a stored weight array has had was made by a fresh optimizer, and the
\* module-level instance is never stepped.
C9_FreshOptimizerEachTick ==
    tick # None =>
        /\ tick.obj = "training"
        /\ tick.opt = [t |-> 0]
        /\ \A k \in DOMAIN tick.out.weights.upd : tick.out.weights.upd[k].t = 0
        /\ instructor.opt = [t |-> 0]

\* a third consecutive tick has run
C9_Witness == tick # None /\ ~tick.reset /\ Len(tick.out.loss) = 3

\* nothing is in flight after training has started
Halted == proc # None /\ trainingReqs = <<>> /\ pongReqs = <<>>

\* C10: whenever the loop is halted the log holds exactly 31 entries; an
\* invocation that takes the reset branch was dispatched by a click; and after
\* one click the loop halts unless the button is clicked again.
C10_LoopHalts ==
    /\ [](Halted => Len(proc.loss) = 31)
    /\ [](\A i \in DOMAIN trainingReqs :
             (/\ trainingReqs[i].page_log # None
              /\ Len(trainingReqs[i].page_log.loss) > 30) => trainingReqs[i].by = "click")
    /\ (clicks = 1) ~> (Halted \/ clicks > 1)

\* the loop has halted after a single click
C10_Witness == Halted /\ clicks = 1 /\ Len(proc.loss) = 31

====
